---- MODULE Spec2Model ----
(***************************************************************************)
(* Building-height scripts of gee_building_heights.                        *)
(*                                                                         *)
(* Three batch pipelines (the 2023 script and the multi-year BGFA script   *)
(* of geebuilding.js, the multi-year height script of small_pune.js) and   *)
(* the interactive tool of building_heights_latest_4_feb.js.               *)
(*                                                                         *)
(* Geometry is projected on the longitude axis: a point is an integer      *)
(* coordinate, a footprint an interval, the Region the interval            *)
(* [RegionMin, RegionMax].  A raster is sampled on pixels PixelSize        *)
(* coordinates wide (the scripts sample at scale 10).  Heights are in      *)
(* tenths of a metre, confidences in tenths, building_presence in tenths.  *)
(* Null is the platform's null / masked value.                             *)
(***************************************************************************)
EXTENDS Integers, Sequences, FiniteSets, TLC

\* ------------------------------------------------------------------ bounds
MaxBuildings == 2
MaxSceneChanges == 1
MaxPixel == 3
MaxEvents == 3

\* --------------------------------------------------------- program constants
FirstYear == 2016
LastYear == 2023
Years == FirstYear..LastYear
SingleYear == 2023
PixelSize == 2
RegionMin == 1
RegionMax == 6
MinConfidence == 7
FloorHeight == 30
Null == -1
FLOOR_HEIGHT == 3
HEIGHT_MULTIPLIER == 1
HeightFactor == 10
PresenceThreshold == 2

Pixels == 0..MaxPixel
Coords == 0..(PixelSize * (MaxPixel + 1) - 1)
BandNames == {"building_height", "building_presence", "building_fractional_count"}

\* ------------------------------------------------------------ input domains
\* A masked pixel: every band null.
Masked == [b \in BandNames |-> Null]

Px(h, p, c) ==
    [b \in BandNames |-> IF b = "building_height" THEN h
                         ELSE IF b = "building_presence" THEN p ELSE c]

\* Three raster tiles of the temporal collection: footprint [lo, hi] in
\* coordinates and the values per pixel and band (height in tenths of a
\* metre, presence in tenths, fractional count in hundredths).
TileA == [lo |-> 0, hi |-> 7,
          px |-> [p \in Pixels |->
                    IF p = 0 THEN Px(90, 9, 4)
                    ELSE IF p = 1 THEN Px(30, 8, 2)
                    ELSE IF p = 2 THEN Px(0, 3, 1)
                    ELSE Px(31, 10, 3)]]

TileB == [lo |-> 2, hi |-> 7,
          px |-> [p \in Pixels |->
                    IF p = 1 THEN Px(31, 6, 2)
                    ELSE IF p = 3 THEN Px(60, 1, 1)
                    ELSE Masked]]

TileC == [lo |-> 7, hi |-> 7,
          px |-> [p \in Pixels |-> IF p = 3 THEN Px(45, 7, 2) ELSE Masked]]

Tile(name) == IF name = "A" THEN TileA ELSE IF name = "B" THEN TileB ELSE TileC

\* What the collection can hold for one year's reference epoch (tile names
\* in collection order): nothing, one tile, two overlapping tiles, or only
\* a tile that lies beside the Region.
SceneOpts == {<< >>, <<"A">>, <<"B">>, <<"A", "B">>, <<"C">>}

\* Number of year boundaries at which the collection's content changes.
SceneChanges(t) ==
    Cardinality({y \in Years : y < LastYear /\ t[y] # t[y + 1]})

\* Input buildings: centroid c, half-width w (footprint [c-w, c+w]),
\* footprint area in m2, detection confidence in tenths.
Bld(c, w, a, conf) == [c |-> c, w |-> w, area |-> a, confidence |-> conf]

Candidates ==
    << Bld(1, 1, 30, 9),
       Bld(0, 1, 50, 7),
       Bld(3, 1, 50, 6),
       Bld(3, 0, 30, 9),
       Bld(5, 1, 50, 9),
       Bld(7, 1, 30, 9),
       Bld(7, 0, 50, 8) >>

\* Collections of at most MaxBuildings candidate buildings (as index lists,
\* non-decreasing so that a collection is listed once).
BuildingLists ==
    UNION {{s \in [1..n -> 1..Len(Candidates)] :
                \A i \in 1..n : \A j \in 1..n : i <= j => s[i] <= s[j]}
           : n \in 0..MaxBuildings}

\* Polygons the user can draw (as the pixels they cover) and map scales.
Polygons == {{0, 1}, {2, 3}}
MapScales == {10, 20}

PipelineScripts == {"geebuilding_2023", "small_pune", "geebuilding"}

\* -------------------------------------------------------------------- state
VARIABLES
    script,             \* which script runs
    temporal,           \* open-buildings-temporal: year -> tiles at that epoch
    buildings,          \* open-buildings polygons: sequence of features
    pc,                 \* stage of the server-side evaluation
    filteredBuildings,  \* ids (indices in buildings) passing the filters
    processedBuildings, \* id -> record, for the ids mapped so far
    failedAt,           \* id whose derivation raised, 0 if none
    validBuildings,     \* ids retained by the validity filter
    exported,           \* rows handed to Export.table.toDrive
    yearStats,          \* year -> printed statistics
    chartPop,           \* year -> ids in the histogram of that year
    mapScale,           \* Map.getScale()
    layers,             \* drawingTools.layers(): sequence of drawn areas
    pending,            \* remote evaluate() requests awaiting their callback
    console,            \* what the latest handler printed, oldest first
    crashed,            \* a callback raised a TypeError
    events,             \* user events so far
    lastClick           \* the latest user event

pipeVars == << buildings, pc, filteredBuildings, processedBuildings, failedAt,
               validBuildings, exported, yearStats, chartPop >>

toolVars == << mapScale, layers, pending, console, crashed, events, lastClick >>

vars == << script, temporal, buildings, pc, filteredBuildings,
           processedBuildings, failedAt, validBuildings, exported,
           yearStats, chartPop, mapScale, layers, pending, console, crashed,
           events, lastClick >>

\* ------------------------------------------------------------ platform model
\* The function f with its values computed once rather than at each use.
Tabulated(f) == f @@ << >>

\* ImageCollection.mosaic(): later tiles win per pixel and band where they
\* have data; the mosaic of an empty collection has no bands.
RECURSIVE MosaicData(_)
MosaicData(tiles) ==
    IF tiles = << >> THEN [p \in Pixels |-> Masked]
    ELSE LET below == MosaicData(SubSeq(tiles, 1, Len(tiles) - 1))
             top == Tile(tiles[Len(tiles)])
         IN  Tabulated([p \in Pixels |->
                Tabulated([b \in BandNames |->
                    IF top.px[p][b] # Null THEN top.px[p][b] ELSE below[p][b]])])

Mosaic(tiles) ==
    [error |-> FALSE,
     bands |-> IF tiles = << >> THEN {} ELSE BandNames,
     data  |-> MosaicData(tiles)]

\* ImageCollection.filterBounds(puneRegion): tiles whose footprint
\* intersects the Region.
TileInBounds(name) == Tile(name).lo <= RegionMax /\ Tile(name).hi >= RegionMin

FilterBoundsTiles(tiles) == SelectSeq(tiles, TileInBounds)

\* Twice the centre coordinate of pixel p (pixel p covers
\* [p*PixelSize, (p+1)*PixelSize)).
PixelCentre2(p) == 2 * p * PixelSize + PixelSize

InRegion(x) == RegionMin <= x /\ x <= RegionMax

\* Image.clip(puneRegion): a pixel keeps its data iff its centre is covered.
Clip(img) ==
    [img EXCEPT !.data =
        [p \in Pixels |->
            IF 2 * RegionMin <= PixelCentre2(p) /\ PixelCentre2(p) <= 2 * RegionMax
            THEN img.data[p] ELSE Masked]]

\* Image.select(band): raises when the pattern matches no band.
Select(img, band) ==
    IF img.error \/ band \notin img.bands
    THEN [img EXCEPT !.error = TRUE]
    ELSE [img EXCEPT !.bands = {band}]

PixelOf(x) == x \div PixelSize

\* reduceRegion(Reducer.first(), point, scale).get(band): the value of the
\* pixel containing the point, null where masked.
SampleFirst(img, x, band) ==
    IF x \in Coords THEN img.data[PixelOf(x)][band] ELSE Null

\* --------------------------------------------------------------- the scripts
ScriptYears(s) == IF s = "geebuilding_2023" THEN {SingleYear} ELSE Years

\* The image the chain filter(epoch).filterBounds.mosaic.clip.select yields,
\* per content of the collection at the epoch.
HeightImageOf ==
    Tabulated([tiles \in SceneOpts |->
        Select(Clip(Mosaic(FilterBoundsTiles(tiles))), "building_height")])

getHeightImageForYear(year) == HeightImageOf[temporal[year]]

CeilDiv_floor(a, b) == a \div b

CeilDiv(a, b) == (a + b - 1) \div b

calculateBGFA_nofallback(height, area) ==
    IF height = Null THEN Null ELSE area * CeilDiv(height, FloorHeight)

calculateBGFA(height, area) ==
    IF height = Null THEN area ELSE area * CeilDiv(height, FloorHeight)

Centroid(b) == b.c

HeightAt(b, year) ==
    SampleFirst(getHeightImageForYear(year), Centroid(b), "building_height")

\* A derivation raises when an image it samples raises.
DerivationFails(s) ==
    \E y \in ScriptYears(s) : getHeightImageForYear(y).error

\* simplifyBuilding / getHeightsForAllYears / getHeightsAndArea
DeriveRecord(s, b) ==
    LET hs == [y \in ScriptYears(s) |-> HeightAt(b, y)]
        base == [longitude |-> Centroid(b), confidence |-> b.confidence,
                 height |-> hs]
    IN  IF s = "geebuilding"
        THEN [longitude |-> base.longitude, confidence |-> base.confidence,
              height |-> hs, area_m2 |-> b.area,
              bgfa |-> [y \in Years |-> calculateBGFA(hs[y], b.area)]]
        ELSE base

\* filterBounds(puneRegion): the footprint intersects the Region.
FilterBounds(b) == b.c - b.w <= RegionMax /\ b.c + b.w >= RegionMin

PassesFilters_gt(b) == FilterBounds(b) /\ b.confidence > MinConfidence

PassesFilters(b) == FilterBounds(b) /\ b.confidence >= MinConfidence

IsValid_and(s, r) == \A y \in ScriptYears(s) : r.height[y] # Null

\* ee.Filter.or of notNull(['height_<y>']) over the years
IsValid(s, r) == \E y \in ScriptYears(s) : r.height[y] # Null

NoStats == [y \in Years |-> [count |-> Null]]
NoChart == [y \in Years |-> {}]

\* --------------------------------------------------------------------- Init
InitPipeline ==
    /\ script \in PipelineScripts
    /\ temporal \in [Years -> SceneOpts]
    /\ SceneChanges(temporal) <= MaxSceneChanges
    /\ \E s \in BuildingLists : buildings = [i \in DOMAIN s |-> Candidates[s[i]]]
    /\ pc = "start"
    /\ filteredBuildings = {}
    /\ processedBuildings = << >>
    /\ failedAt = 0
    /\ validBuildings = {}
    /\ exported = {}
    /\ yearStats = NoStats
    /\ chartPop = NoChart
    /\ mapScale = 0
    /\ layers = << >>
    /\ pending = {}
    /\ console = << >>
    /\ crashed = FALSE
    /\ events = 0
    /\ lastClick = "none"

\* The tool after its top-level code ran: drawingTools.layers().reset() and
\* the greeting print.
InitTool ==
    /\ script = "building_heights_tool"
    /\ temporal \in [Years -> SceneOpts]
    /\ SceneChanges(temporal) <= MaxSceneChanges
    /\ mapScale \in MapScales
    /\ layers = << >>
    /\ pending = {}
    /\ console = << [kind |-> "greeting"] >>
    /\ crashed = FALSE
    /\ events = 0
    /\ lastClick = "none"
    /\ buildings = << >>
    /\ pc = "tool"
    /\ filteredBuildings = {}
    /\ processedBuildings = << >>
    /\ failedAt = 0
    /\ validBuildings = {}
    /\ exported = {}
    /\ yearStats = NoStats
    /\ chartPop = NoChart

Init == InitPipeline

\* ------------------------------------------------------------------ actions
FilterBuildings ==
    /\ pc = "start"
    /\ filteredBuildings' = {i \in DOMAIN buildings : PassesFilters(buildings[i])}
    /\ pc' = "mapping"
    /\ UNCHANGED << toolVars, script, temporal, buildings, processedBuildings, failedAt,
                    validBuildings, exported, yearStats, chartPop >>

\* One element of filteredBuildings.map(...): the server derives the record
\* of building i; an error in the mapped function aborts the whole map.
Derive(i) ==
    /\ pc = "mapping"
    /\ i \in filteredBuildings
    /\ i \notin DOMAIN processedBuildings
    /\ IF DerivationFails(script)
       THEN /\ pc' = "failed"
            /\ failedAt' = i
            /\ processedBuildings' = << >>
       ELSE /\ processedBuildings' =
                [j \in DOMAIN processedBuildings \cup {i} |->
                    IF j = i THEN DeriveRecord(script, buildings[i])
                    ELSE processedBuildings[j]]
            /\ UNCHANGED << pc, failedAt >>
    /\ UNCHANGED << toolVars, script, temporal, buildings, filteredBuildings,
                    validBuildings, exported, yearStats, chartPop >>

\* processedBuildings.filter(ee.Filter.or(notNull height_<y> ...))
Validate ==
    /\ pc = "mapping"
    /\ DOMAIN processedBuildings = filteredBuildings
    /\ validBuildings' = {i \in DOMAIN processedBuildings :
                              IsValid(script, processedBuildings[i])}
    /\ pc' = "validated"
    /\ UNCHANGED << toolVars, script, temporal, buildings, filteredBuildings,
                    processedBuildings, failedAt, exported, yearStats, chartPop >>

\* Export.table.toDrive({collection: validBuildings, ...})
Export ==
    /\ pc = "validated"
    /\ exported' = {[id |-> i, row |-> processedBuildings[i]] : i \in validBuildings}
    /\ pc' = "exported"
    /\ UNCHANGED << toolVars, script, temporal, buildings, filteredBuildings,
                    processedBuildings, failedAt, validBuildings, yearStats,
                    chartPop >>

RECURSIVE SumOver(_, _)
SumOver(S, val) ==
    IF S = {} THEN 0
    ELSE LET x == CHOOSE e \in S : TRUE IN val[x] + SumOver(S \ {x}, val)

\* FeatureCollection.aggregate_stats(property) over the features pop, whose
\* property values are val[i].
AggregateStats(pop, val) ==
    [count |-> Cardinality(pop),
     sum   |-> SumOver(pop, val),
     min   |-> IF pop = {} THEN Null
               ELSE CHOOSE m \in {val[i] : i \in pop} : \A i \in pop : m <= val[i],
     max   |-> IF pop = {} THEN Null
               ELSE CHOOSE m \in {val[i] : i \in pop} : \A i \in pop : m >= val[i]]

HeightOf(y) == [i \in DOMAIN processedBuildings |-> processedBuildings[i].height[y]]
BgfaOf(y) == [i \in DOMAIN processedBuildings |-> processedBuildings[i].bgfa[y]]

nonNullBuildings_all(y) == validBuildings

\* validBuildings.filter(ee.Filter.notNull(['height_<y>']))
nonNullBuildings(y) == {i \in validBuildings : processedBuildings[i].height[y] # Null}

HeightCategories == {100, 200, 300, 400, 500}

YearStatistic(y) ==
    IF script = "geebuilding_2023"
    THEN [pop |-> validBuildings,
          count |-> Cardinality(validBuildings),
          height |-> AggregateStats(validBuildings, HeightOf(y)),
          above |-> [h \in HeightCategories |->
                        Cardinality({i \in validBuildings :
                                        processedBuildings[i].height[y] > h})]]
    ELSE IF script = "small_pune"
    THEN [pop |-> nonNullBuildings(y),
          count |-> Cardinality(nonNullBuildings(y)),
          height |-> AggregateStats(nonNullBuildings(y), HeightOf(y))]
    ELSE [pop |-> nonNullBuildings(y),
          count |-> Cardinality(nonNullBuildings(y)),
          height |-> AggregateStats(nonNullBuildings(y), HeightOf(y)),
          bgfa |-> AggregateStats(nonNullBuildings(y), BgfaOf(y))]

\* The statistics prints: years.forEach(...) of the multi-year scripts, the
\* 'Basic Statistics' block of the 2023 script.
Report ==
    /\ pc = "exported"
    /\ yearStats' = [y \in Years |->
                        IF y \in ScriptYears(script) THEN YearStatistic(y)
                        ELSE yearStats[y]]
    /\ pc' = "reported"
    /\ UNCHANGED << toolVars, script, temporal, buildings, filteredBuildings,
                    processedBuildings, failedAt, validBuildings, exported,
                    chartPop >>

\* Features handed to ui.Chart.feature.histogram for year y.
ChartFeatures(y) ==
    IF script = "geebuilding_2023" THEN validBuildings
    ELSE IF script = "small_pune"
    THEN {i \in validBuildings : processedBuildings[i].height[y] # Null}
    ELSE {i \in validBuildings : processedBuildings[i].bgfa[y] # Null}

Charts ==
    /\ pc = "reported"
    /\ chartPop' = [y \in Years |->
                        IF y \in ScriptYears(script) THEN ChartFeatures(y) ELSE {}]
    /\ pc' = "done"
    /\ UNCHANGED << toolVars, script, temporal, buildings, filteredBuildings,
                    processedBuildings, failedAt, validBuildings, exported,
                    yearStats >>

\* ------------------------------------------------- building_heights tool
\* Rationals as numerator / denominator.
Rat(n, d) == [num |-> n, den |-> d]
\* A null number: no denominator.
NullRat == Rat(0, 0)
IsNullRat(q) == q.den = 0

\* Units per 1.0 of a band's stored value.
BandDen(b) == IF b = "building_fractional_count" THEN 100 ELSE 10

\* mosaic.updateMask(mosaic.select('building_presence').gt(0.2))
MaskedImage(img) ==
    [img EXCEPT !.data =
        [p \in Pixels |->
            IF img.data[p]["building_presence"] # Null
               /\ img.data[p]["building_presence"] > PresenceThreshold
            THEN img.data[p] ELSE Masked]]

\* reduceRegion(Reducer.mean(), aoi).get(band): the mean over the unmasked
\* pixels of the area, null when there is none.
MeanOver(img, aoi, band) ==
    LET live == {p \in aoi : img.data[p][band] # Null}
    IN  IF live = {} THEN NullRat
        ELSE Rat(SumOver(live, [p \in Pixels |-> img.data[p][band]]),
                 Cardinality(live) * BandDen(band))

\* The dictionary of one year in analyzeBuildings; error when a step of its
\* computation raises (no band to select, a number operation on null).
SceneDict(tiles, aoi, scale) ==
    LET mosaic == Mosaic(tiles)
        presence == Select(mosaic, "building_presence")
        maskedImage == MaskedImage(mosaic)
        cnt == MeanOver(maskedImage, aoi, "building_fractional_count")
        hgt == MeanOver(maskedImage, aoi, "building_height")
        prs == MeanOver(maskedImage, aoi, "building_presence")
    IN  IF presence.error \/ IsNullRat(cnt) \/ IsNullRat(hgt)
        THEN [error |-> TRUE]
        ELSE [error |-> FALSE,
              count |-> Rat(cnt.num * (2 * scale) * (2 * scale), cnt.den),
              avgHeight |-> Rat(hgt.num * HeightFactor, hgt.den),
              avgFloors |-> Rat(hgt.num * HeightFactor, hgt.den * FLOOR_HEIGHT),
              presence |-> prs]

Areas == SUBSET Pixels \ {{}}

\* The dictionary per content of the collection, area and scale, tabulated.
SceneDictOf ==
    Tabulated([tiles \in SceneOpts |-> Tabulated([aoi \in Areas |->
        Tabulated([scale \in MapScales |-> SceneDict(tiles, aoi, scale)])])])

YearDict(year, aoi, scale) ==
    LET d == SceneDictOf[temporal[year]][aoi][scale]
    IN  IF d.error THEN d
        ELSE [error |-> FALSE, year |-> year, count |-> d.count,
              avgHeight |-> d.avgHeight, avgFloors |-> d.avgFloors,
              presence |-> d.presence]

\* counts.evaluate(...): the list of the per-year dictionaries, or
\* undefined when the evaluation fails.
EvaluateCounts(aoi, scale) ==
    LET counts == Tabulated([y \in Years |-> YearDict(y, aoi, scale)])
    IN  IF \E y \in Years : counts[y].error
        THEN [defined |-> FALSE]
        ELSE [defined |-> TRUE, list |-> counts]

NoCountList_never(countList) == FALSE

\* if (!countList)
NoCountList(countList) == ~countList.defined

\* A field of the statistic on which toFixed is called is null.
NullField(stat) ==
    \/ IsNullRat(stat.count)
    \/ IsNullRat(stat.avgHeight)
    \/ IsNullRat(stat.avgFloors)
    \/ IsNullRat(stat.presence)

\* Number.prototype.toFixed(digits) of a non-negative rational, as the
\* integer it shows without the decimal point.
Pow10(n) == IF n = 0 THEN 1 ELSE IF n = 1 THEN 10 ELSE IF n = 2 THEN 100 ELSE 1000
ToFixed(q, digits) == (2 * q.num * Pow10(digits) + q.den) \div (2 * q.den)

\* print(...) calls of one handler
Show(es) == console' = es

ResetLayers_keep == layers

\* drawingTools.layers().reset()
ResetLayers == << >>

drawButton ==
    /\ script = "building_heights_tool"
    /\ events < MaxEvents
    /\ events' = events + 1
    /\ lastClick' = "draw"
    /\ layers' = ResetLayers
    /\ Show(<< >>)
    /\ UNCHANGED << script, temporal, pipeVars, mapScale, pending, crashed >>

\* The user completes a polygon: it starts the first layer, joins it, or
\* goes to a further layer the user added.
PolygonDrawn(poly) ==
    /\ script = "building_heights_tool"
    /\ events < MaxEvents
    /\ events' = events + 1
    /\ lastClick' = "polygon"
    /\ \/ layers' = IF layers = << >> THEN << poly >>
                     ELSE [layers EXCEPT ![1] = layers[1] \cup poly]
       \/ /\ layers # << >>
          /\ layers' = Append(layers, poly)
    /\ Show(<< >>)
    /\ UNCHANGED << script, temporal, pipeVars, mapScale, pending, crashed >>

analyzeButton ==
    /\ script = "building_heights_tool"
    /\ events < MaxEvents
    /\ events' = events + 1
    /\ lastClick' = "analyze"
    /\ IF Len(layers) > 0
       THEN LET aoi == layers[1]
            IN  /\ pending' = pending \cup
                        {[id |-> events, kind |-> "area", aoi |-> aoi],
                         [id |-> events, kind |-> "counts", aoi |-> aoi]}
                /\ Show(<< [kind |-> "chart", aoi |-> aoi] >>)
       ELSE /\ Show(<< [kind |-> "please_draw"] >>)
            /\ UNCHANGED pending
    /\ UNCHANGED << script, temporal, pipeVars, mapScale, layers, crashed >>

clearButton ==
    /\ script = "building_heights_tool"
    /\ events < MaxEvents
    /\ events' = events + 1
    /\ lastClick' = "clear"
    /\ layers' = ResetLayers
    /\ Show(<< [kind |-> "cleared"] >>)
    /\ UNCHANGED << script, temporal, pipeVars, mapScale, pending, crashed >>

\* aoi.area().divide(1e6).evaluate(function(squareKm) {...})
AreaCallback(req) ==
    /\ req \in pending
    /\ req.kind = "area"
    /\ pending' = pending \ {req}
    /\ Show(<< [kind |-> "area", aoi |-> req.aoi, pixels |-> Cardinality(req.aoi)] >>)
    /\ UNCHANGED << script, temporal, pipeVars, mapScale, layers, crashed, events,
                    lastClick >>

\* counts.evaluate(function(countList) {...})
CountsCallback(req) ==
    /\ req \in pending
    /\ req.kind = "counts"
    /\ pending' = pending \ {req}
    /\ LET countList == EvaluateCounts(req.aoi, mapScale)
       IN  IF NoCountList(countList)
           THEN /\ Show(<< [kind |-> "no_results", aoi |-> req.aoi] >>)
                /\ UNCHANGED crashed
           ELSE IF ~countList.defined
                   \/ \E y \in Years : NullField(countList.list[y])
           THEN \* forEach of undefined, or toFixed of null: TypeError
                /\ Show(<< [kind |-> "header", aoi |-> req.aoi] >>)
                /\ crashed' = TRUE
           ELSE /\ Show(<< [kind |-> "header", aoi |-> req.aoi] >> \o
                        [n \in 1..Cardinality(Years) |->
                            LET stat == countList.list[FirstYear + n - 1]
                            IN  [kind |-> "statistic", aoi |-> req.aoi,
                                 year |-> stat.year,
                                 count |-> ToFixed(stat.count, 0),
                                 avgHeight |-> ToFixed(stat.avgHeight, 2),
                                 avgFloors |-> ToFixed(stat.avgFloors, 2),
                                 presence |-> ToFixed(stat.presence, 3)]])
                /\ UNCHANGED crashed
    /\ UNCHANGED << script, temporal, pipeVars, mapScale, layers, events, lastClick >>

NextTool ==
    \/ drawButton
    \/ \E poly \in Polygons : PolygonDrawn(poly)
    \/ analyzeButton
    \/ clearButton
    \/ \E req \in pending : AreaCallback(req)
    \/ \E req \in pending : CountsCallback(req)

SpecTool == InitTool /\ [][NextTool]_vars

Next ==
    \/ FilterBuildings
    \/ \E i \in 1..MaxBuildings : Derive(i)
    \/ Validate
    \/ Export
    \/ Report
    \/ Charts

Spec == Init /\ [][Next]_vars

\* The pipelines and the tool together.
InitAll == InitPipeline \/ InitTool

NextAll == Next \/ NextTool

SpecAll == InitAll /\ [][NextAll]_vars

\* -------------------------------------------------------------- properties
MultiYear == script \in {"small_pune", "geebuilding"}
Validated == pc \in {"validated", "exported", "reported", "done"}
Reported == pc \in {"reported", "done"}
HasHeight(i, y) == processedBuildings[i].height[y] # Null

\* C1: in the multi-year pipelines a processed record is in validBuildings
\* if and only if its height is non-missing for at least one year of
\* 2016..2023; so every retained record has a height and no record with a
\* height is dropped.
C1_RetentionIff ==
    (MultiYear /\ Validated) =>
        /\ validBuildings \subseteq DOMAIN processedBuildings
        /\ \A i \in DOMAIN processedBuildings :
              (i \in validBuildings) <=> (\E y \in FirstYear..LastYear : HasHeight(i, y))

\* A record retained with a height in one year only, beside a dropped one.
C1_Witness ==
    /\ MultiYear /\ pc = "done"
    /\ \E i \in validBuildings :
          Cardinality({y \in Years : HasHeight(i, y)}) = 1
    /\ \E j \in DOMAIN processedBuildings : j \notin validBuildings

MaxHeight == 100
MaxFloors == 4

\* The least whole number of floors of FloorHeight that reach height h.
IsFloors(k, h) == k * FloorHeight >= h /\ (k - 1) * FloorHeight < h

\* C2: calculateBGFA(height, area) is area * ceil(height / 3) for a present
\* height and exactly area for a missing one, the floor count rounding up
\* (3.0 m: 1 floor, 3.1 m: 2, 9.0 m: 3); a building of area 30 whose only
\* height is 9.0 m in 2023 gets bgfa_2023 = 90 and bgfa_<y> = 30 otherwise.
C2_BGFAFormula ==
    /\ (script = "geebuilding" /\ pc = "mapping") =>
          \A i \in filteredBuildings :
             LET a == buildings[i].area
             IN  /\ calculateBGFA(Null, a) = a
                 /\ calculateBGFA(30, a) = a
                 /\ calculateBGFA(31, a) = 2 * a
                 /\ calculateBGFA(90, a) = 3 * a
                 /\ \A h \in 0..MaxHeight :
                       \E k \in 0..MaxFloors :
                           IsFloors(k, h) /\ calculateBGFA(h, a) = a * k
    /\ script = "geebuilding" =>
          \A i \in DOMAIN processedBuildings :
             LET r == processedBuildings[i]
             IN  /\ \A y \in Years :
                       /\ r.height[y] = Null => r.bgfa[y] = r.area_m2
                       /\ r.height[y] # Null =>
                             \E k \in 0..MaxFloors :
                                 IsFloors(k, r.height[y]) /\ r.bgfa[y] = r.area_m2 * k
                 /\ (r.area_m2 = 30 /\ r.height[2023] = 90
                       /\ \A y \in 2016..2022 : r.height[y] = Null)
                     => /\ r.bgfa[2023] = 90
                        /\ \A y \in 2016..2022 : r.bgfa[y] = 30

\* The end-to-end example, beside a record with heights 3.1 m and 3.0 m.
C2_Witness ==
    /\ script = "geebuilding" /\ pc = "done"
    /\ \E i \in validBuildings :
          LET r == processedBuildings[i]
          IN  /\ r.area_m2 = 30 /\ r.height[2023] = 90 /\ r.bgfa[2023] = 90
              /\ \A y \in 2016..2022 : r.height[y] = Null /\ r.bgfa[y] = 30
    /\ \E j \in validBuildings :
          LET r == processedBuildings[j]
          IN  /\ r.height[2016] = 31 /\ r.bgfa[2016] = 2 * r.area_m2
              /\ r.height[2023] = 30 /\ r.bgfa[2023] = r.area_m2

\* C3: no record of validBuildings has its centroid outside the Region,
\* also for buildings whose footprint crosses the Region boundary while
\* their centroid lies outside.
C3_CentroidInRegion ==
    (MultiYear /\ Validated) => \A i \in validBuildings : InRegion(processedBuildings[i].longitude)

\* C4: every output record comes from an input building of confidence
\* >= 0.7 and carries that confidence unchanged; a building of confidence
\* exactly 0.7 is admitted, one below 0.7 never yields a record.
C4_ConfidenceFilter ==
    /\ \A i \in DOMAIN processedBuildings :
          /\ buildings[i].confidence >= 7
          /\ processedBuildings[i].confidence = buildings[i].confidence
    /\ \A i \in validBuildings : buildings[i].confidence >= 7
    /\ \A e \in exported :
          /\ buildings[e.id].confidence >= 7
          /\ e.row.confidence = buildings[e.id].confidence
    /\ pc # "start" =>
          \A i \in DOMAIN buildings :
             /\ buildings[i].confidence < 7 => i \notin filteredBuildings
             /\ (buildings[i].confidence = 7 /\ FilterBounds(buildings[i]))
                   => i \in filteredBuildings

\* A building of confidence 0.7 exported, one of confidence 0.6 left out.
C4_Witness ==
    /\ pc = "done"
    /\ \E e \in exported : buildings[e.id].confidence = 7 /\ e.row.confidence = 7
    /\ \E i \in DOMAIN buildings :
          buildings[i].confidence = 6 /\ FilterBounds(buildings[i])

\* C5: the population of a year's statistics is exactly the retained
\* records whose height of that year is non-missing: never larger than
\* validBuildings, possibly different from year to year, and the union of
\* the yearly populations is validBuildings.
C5_YearPopulation ==
    Reported =>
        /\ \A y \in ScriptYears(script) :
              /\ yearStats[y].pop = {i \in validBuildings : HasHeight(i, y)}
              /\ yearStats[y].count = Cardinality(yearStats[y].pop)
              /\ yearStats[y].count <= Cardinality(validBuildings)
              /\ yearStats[y].height.count = yearStats[y].count
              /\ yearStats[y].count > 0 => yearStats[y].height.min # Null
              /\ script = "geebuilding" =>
                    yearStats[y].bgfa.count = yearStats[y].count
        /\ UNION {yearStats[y].pop : y \in ScriptYears(script)} = validBuildings

\* Two years whose populations differ in size, one smaller than the
\* retained set.
C5_Witness ==
    /\ MultiYear /\ pc = "done"
    /\ \E y1 \in Years : \E y2 \in Years :
          /\ yearStats[y1].count < yearStats[y2].count
          /\ 0 < yearStats[y1].count
          /\ yearStats[y1].count < Cardinality(validBuildings)

\* C6: when no scene of the collection matches the reference epoch of a
\* year y the pipeline still completes without error, every record has
\* height_<y> missing and bgfa_<y> equal to the footprint area, and the
\* other years are unaffected.
C6_MissingSceneDegrades ==
    \A y \in Years :
        (MultiYear /\ temporal[y] = << >>) =>
            /\ pc # "failed"
            /\ Validated => DOMAIN processedBuildings = filteredBuildings
            /\ \A i \in DOMAIN processedBuildings :
                  /\ processedBuildings[i].height[y] = Null
                  /\ script = "geebuilding" =>
                        processedBuildings[i].bgfa[y] = processedBuildings[i].area_m2
                  /\ \A z \in Years \ {y} :
                        temporal[z] # << >> =>
                            processedBuildings[i].height[z] = HeightAt(buildings[i], z)

\* C7: the derivations are isolated per building: in every processing
\* order a record depends only on its own building and the height
\* surfaces, is written once, and a derivation that fails for one building
\* leaves the records of the others produced and the run not aborted.
C7_IsolatedDerivations ==
    [][ MultiYear =>
        /\ \A i \in DOMAIN processedBuildings' :
              processedBuildings'[i] = DeriveRecord(script, buildings[i])
        /\ (failedAt' # 0 /\ filteredBuildings \ {failedAt'} # {}) =>
              /\ pc' # "failed"
              /\ \A j \in DOMAIN processedBuildings :
                    /\ j \in DOMAIN processedBuildings'
                    /\ processedBuildings'[j] = processedBuildings[j] ]_vars

\* The result the server returns for the request a console line answers.
ResultFor(e) == EvaluateCounts(e.aoi, mapScale)

\* C8: an empty result is detected before the statistics are put out: when
\* the evaluation of the yearly statistics returns nothing the callback
\* prints 'No results returned' and nothing else and reads no field of a
\* missing statistic; when the retained set is empty the yearly count is 0.
C8_EmptyDetected ==
    /\ [](/\ ~crashed
          /\ \A k \in DOMAIN console :
                /\ console[k].kind = "no_results" =>
                      ~ResultFor(console[k]).defined /\ Len(console) = 1
                /\ console[k].kind \in {"header", "statistic"} =>
                      ResultFor(console[k]).defined
          /\ (script \in PipelineScripts /\ Reported /\ validBuildings = {}) =>
                \A y \in ScriptYears(script) :
                    /\ yearStats[y].count = 0
                    /\ yearStats[y].height.count = 0
                    /\ yearStats[y].height.min = Null)
    /\ [][\A req \in pending \ pending' :
             (req.kind = "counts" /\ ~EvaluateCounts(req.aoi, mapScale).defined) =>
                 console' = << [kind |-> "no_results", aoi |-> req.aoi] >>]_vars

\* The callback of a failed evaluation has printed the message.
C8_Witness ==
    /\ script = "building_heights_tool"
    /\ Len(console) = 1 /\ console[1].kind = "no_results"
    /\ ~crashed

\* The mean building_height (in the band's unit) over the area in a year.
MeanHeight(aoi, year) ==
    MeanOver(MaskedImage(Mosaic(temporal[year])), aoi, "building_height")

\* C9: in analyzeBuildings avgHeight is the mean building_height times
\* HEIGHT_MULTIPLIER and avgFloors is avgHeight / FLOOR_HEIGHT, so with
\* HEIGHT_MULTIPLIER = 1 the reported average height is the mean height.
C9_HeightMultiplier ==
    \A k \in DOMAIN console :
        console[k].kind = "statistic" =>
            LET m == MeanHeight(console[k].aoi, console[k].year)
            IN  /\ console[k].avgHeight =
                      ToFixed(Rat(m.num * HEIGHT_MULTIPLIER, m.den), 2)
                /\ console[k].avgFloors =
                      ToFixed(Rat(m.num * HEIGHT_MULTIPLIER, m.den * FLOOR_HEIGHT), 2)

\* C10 as claimed: every record of getHeightsAndArea has bgfa_<y> present
\* and >= area_m2 for every year; the BGFA histogram of a year shows all of
\* validBuildings, the BGFA statistics only the records with height_<y>.
C10_BgfaAtLeastArea ==
    script = "geebuilding" =>
        /\ \A i \in DOMAIN processedBuildings : \A y \in Years :
              /\ processedBuildings[i].bgfa[y] # Null
              /\ processedBuildings[i].bgfa[y] >= processedBuildings[i].area_m2
        /\ pc = "done" =>
              \A y \in Years :
                  /\ chartPop[y] = validBuildings
                  /\ yearStats[y].pop = {i \in validBuildings : HasHeight(i, y)}

\* C10 amended: bgfa_<y> is present for every year; it is >= area_m2 when
\* height_<y> is missing or positive and 0 when height_<y> is 0; the
\* histogram and statistics populations are as stated in C10.
C10_BgfaPresent ==
    script = "geebuilding" =>
        /\ \A i \in DOMAIN processedBuildings : \A y \in Years :
              LET r == processedBuildings[i]
              IN  /\ r.bgfa[y] # Null
                  /\ r.bgfa[y] >= 0
                  /\ (r.height[y] = Null \/ r.height[y] > 0) => r.bgfa[y] >= r.area_m2
                  /\ r.height[y] = 0 => r.bgfa[y] = 0
        /\ pc = "done" =>
              \A y \in Years :
                  /\ chartPop[y] = validBuildings
                  /\ yearStats[y].pop = {i \in validBuildings : HasHeight(i, y)}

\* A retained record with height 0 (BGFA 0) in one year and no height in
\* another, where it is in the histogram but not in the statistics.
C10_Witness ==
    /\ script = "geebuilding" /\ pc = "done"
    /\ \E i \in validBuildings : \E y1 \in Years : \E y2 \in Years :
          /\ processedBuildings[i].height[y1] = 0
          /\ processedBuildings[i].bgfa[y1] = 0
          /\ processedBuildings[i].height[y2] = Null
          /\ processedBuildings[i].bgfa[y2] = processedBuildings[i].area_m2
          /\ i \in chartPop[y2]
          /\ i \notin yearStats[y2].pop
\* A user event of the given kind happens in this step.
Click(kind) == events' = events + 1 /\ lastClick' = kind

\* C11: through every sequence of Draw, Analyze and Clear clicks, polygon
\* completions and pending callbacks, remote requests are issued only by an
\* Analyze click made while the layer list is non-empty, and then for the
\* first layer; an Analyze click on an empty list prints 'Please draw an
\* area first' and issues no request; a Draw or Clear click leaves the list
\* empty, so an Analyze click directly after Clear runs no analysis.
C11_AnalyzeOnlyOnDrawnArea ==
    /\ [](lastClick \in {"draw", "clear"} => layers = << >>)
    /\ [][ /\ ~(pending' \subseteq pending) =>
                /\ Click("analyze")
                /\ Len(layers) > 0
                /\ \A r \in pending' \ pending : r.aoi = layers[1]
                /\ console' = << [kind |-> "chart", aoi |-> layers[1]] >>
           /\ (Click("analyze") /\ Len(layers) > 0) =>
                /\ \E r \in pending' \ pending : r.kind = "counts" /\ r.aoi = layers[1]
                /\ \E r \in pending' \ pending : r.kind = "area" /\ r.aoi = layers[1]
           /\ (Click("analyze") /\ Len(layers) = 0) =>
                /\ console' = << [kind |-> "please_draw"] >>
                /\ pending' = pending
           /\ (Click("draw") \/ Click("clear")) => layers' = << >>
           /\ (lastClick = "clear" /\ Click("analyze")) =>
                /\ pending' = pending
                /\ console' = << [kind |-> "please_draw"] >> ]_vars

\* The area was analysed and then cleared while the analysis is pending.
C11_Witness ==
    /\ script = "building_heights_tool"
    /\ lastClick = "clear"
    /\ layers = << >>
    /\ \E r \in pending : r.kind = "counts"
====
